---- MODULE Spec2Model ----
(***************************************************************************)
(* sjtu::priority_queue<T, Compare> of src/vector/src/vector.hpp: a        *)
(* mergeable heap of individually allocated nodes.  The model keeps the    *)
(* node memory (val, ls, rs of every address), the set of live             *)
(* allocations, and each queue object's root_ and size_.  Compare may      *)
(* throw: every operation takes as input the index of the comparison that  *)
(* throws (0: none).  Undefined behaviour (reading an absent root, using   *)
(* or freeing a freed node) has two outcomes: the process crashes, or it   *)
(* carries on over the memory as it stands.                                *)
(*                                                                         *)
(* sjtu::vector<T> of the same file is modelled beside it (VecSpec): each  *)
(* vector's data_, size_, capacity_ and elements, and the iterators        *)
(* (ptr_, idx_) its calls return.                                          *)
(***************************************************************************)
EXTENDS Integers, FiniteSets, Sequences, TLC

\* ---------------------------------------------------------------- bounds
MaxObjects == 6
MaxNodes == MaxObjects - 1
MaxVal == 2
NumQueues == 2
MaxThrow == 3
MaxFaults == 1
MaxAfter == 3
NumVecs == 2
MaxLen == 3
MaxOff == 1

Null == 0
Node == 1..MaxNodes
Value == 1..MaxVal
Queue == 1..NumQueues
NoQueue == Null

VARIABLES
    alloc,      \* the addresses holding a live heapnode
    val,        \* heapnode::val of every address (stale once freed)
    ls,         \* heapnode::ls
    rs,         \* heapnode::rs
    root,       \* priority_queue::root_ of every queue object
    size,       \* priority_queue::size_
    live,       \* the queue objects whose lifetime has begun and not ended
    crashed,    \* the process died on undefined behaviour
    faults,     \* the number of calls that propagated an exception of Compare
    after,      \* the number of calls made since the first of them
    copyof,     \* for each queue, the queue it was last copied from (history)
    last        \* the call that ended last: what it was and how it ended

\* sjtu::vector<T> and its iterators, lines 15-472
VARIABLES
    data,       \* vector::data_ of every vector object: the address of its buffer
    vsize,      \* vector::size_
    capacity,   \* vector::capacity_
    elems,      \* the constructed elements data_[0 .. size_ - 1]
    vlast       \* the vector or iterator call that ended last

vvars == <<data, vsize, capacity, elems, vlast>>

vars == <<alloc, val, ls, rs, root, size, live, crashed, faults, after, copyof, last,
          data, vsize, capacity, elems, vlast>>

\* The state of the priority queues, which no call on a vector touches.
qvars == <<alloc, val, ls, rs, root, size, live, crashed, faults, after, copyof, last>>

\* The recursion of merge on a memory of MaxNodes nodes either ends within
\* this many frames or never ends (each node is relinked at most once before
\* the walk over pairs of addresses repeats).
StackLimit == (MaxNodes + 1) * (MaxNodes * MaxNodes + 1)

\* std::less<T>: Compare()(a, b)
Compare(a, b) == a < b

\* line 507: the test that swaps x and y, on the values v the nodes hold
SwapNever(v, x, y) == FALSE
SwapInverted(v, x, y) == Compare(v[y], v[x])
NeedSwap(v, x, y) == Compare(v[x], v[y])

Free == Node \ alloc

\* The addresses that can be reached from the addresses in todo through the
\* links L (ls) and R (rs).
RECURSIVE ReachFrom(_, _, _, _)
ReachFrom(L, R, todo, seen) ==
    IF todo = {} THEN seen
    ELSE LET x == CHOOSE n \in todo : TRUE
             next == ({L[x], R[x]} \ {Null}) \ (seen \cup {x})
         IN ReachFrom(L, R, (todo \ {x}) \cup next, seen \cup {x})

ReachIn(L, R, x) == IF x = Null THEN {} ELSE ReachFrom(L, R, {x}, {})

\* The nodes of the tree whose root is x, in the current memory.
Reach(x) == ReachIn(ls, rs, x)

\* The number of slots (the root slot, ls, rs) through which node n is
\* reached from root x.
Slots(x, n) ==
    (IF x = n THEN 1 ELSE 0)
    + Cardinality({m \in Reach(x) : ls[m] = n})
    + Cardinality({m \in Reach(x) : rs[m] = n})

\* A well-formed tree: every reachable node is live and is held by one slot.
IsTree(x) ==
    /\ Reach(x) \subseteq alloc
    /\ \A n \in Reach(x) : Slots(x, n) = 1

\* A node that lies below itself: the recursions of clear and clonenode on
\* it never end.
Cyclic(x) ==
    \E n \in Reach(x) : n \in (Reach(ls[n]) \cup Reach(rs[n]))

\* The addresses some live queue can still get at, given the roots.
Referenced(L, R, rt, lv) ==
    UNION {ReachIn(L, R, rt[q]) : q \in {p \in Queue : lv[p]}}

\* operator new, lines 524 and 586: any free address may come back.  Free
\* addresses that no pointer of a live queue leads to cannot be told apart,
\* so the lowest one stands for them all.
NewChoices(al, refd) ==
    LET free == Node \ al
        fresh == free \ refd
    IN (free \cap refd)
       \cup (IF fresh = {} THEN {}
             ELSE {CHOOSE n \in fresh : \A m \in fresh : n <= m})

\* The queue objects alive.
NumLive == Cardinality({q \in Queue : live[q]})

\* The addresses reached from the pointers in stack, each once, in the order
\* a depth-first walk (ls before rs) meets them.
RECURSIVE Walk(_, _, _, _)
Walk(L, R, stack, acc) ==
    IF stack = <<>> THEN acc
    ELSE LET x == Head(stack)
         IN IF x = Null \/ (\E i \in 1..Len(acc) : acc[i] = x)
            THEN Walk(L, R, Tail(stack), acc)
            ELSE Walk(L, R, <<L[x], R[x]>> \o Tail(stack), Append(acc, x))

\* The next state of the memory and of the queue objects.  The program never
\* looks at the number an address is, only at where pointers lead, so the
\* state is kept up to a renaming of the addresses: the nodes the live queues
\* lead to are numbered in the order of a walk from root_ of queue 1, 2, ...;
\* then come the live nodes no pointer leads to any more (leaked: never read
\* again, so their content is forgotten), then the free addresses.  Two
\* states are equal exactly when they are the same up to the addresses.
Renumber(order, a2, v2, l2, r2, root2, size2, live2) ==
    LET k == Len(order)
        leaked == Cardinality(a2 \ {order[i] : i \in 1..k})
        pos == [x \in Node \cup {Null} |->
                   IF \E i \in 1..k : order[i] = x
                   THEN CHOOSE i \in 1..k : order[i] = x
                   ELSE Null]
    IN /\ alloc' = {i \in 1..k : order[i] \in a2} \cup ((k + 1)..(k + leaked))
       /\ val' = [n \in Node |-> IF n <= k THEN v2[order[n]] ELSE 1]
       /\ ls' = [n \in Node |-> IF n <= k THEN pos[l2[order[n]]] ELSE Null]
       /\ rs' = [n \in Node |-> IF n <= k THEN pos[r2[order[n]]] ELSE Null]
       /\ root' = [q \in Queue |-> IF live2[q] THEN pos[root2[q]] ELSE Null]
       /\ size' = size2
       /\ live' = live2

Commit(a2, v2, l2, r2, root2, size2, live2) ==
    \E order \in {Walk(l2, r2, [q \in Queue |-> IF live2[q] THEN root2[q] ELSE Null], <<>>)} :
       Renumber(order, a2, v2, l2, r2, root2, size2, live2)

\* ------------------------------------------------------------------ merge
MRes(h, ret, st, cmps, ub) ==
    [ls |-> h.ls, rs |-> h.rs, ret |-> ret, st |-> st, cmps |-> cmps, ub |-> ub]

\* heapnode *merge(heapnode *x, heapnode *y), lines 504-516.  al is the set
\* of live nodes and h the node memory [val, ls, rs]; k is the index of the
\* comparison that throws, counted from this call (0: none); fuel is the
\* stack left.  The result holds the memory afterwards, the returned pointer,
\* how the call ended ("ok", "threw", "overflow"), the number of invocations
\* of Compare, and whether a freed node was used.
MergeAttach(al, h, x, y, k, fuel) ==
    IF x = Null THEN MRes(h, y, "ok", 0, FALSE)
    ELSE IF y = Null THEN MRes(h, x, "ok", 0, FALSE)
    ELSE IF k = 1 THEN MRes(h, Null, "threw", 1, (x \notin al) \/ (y \notin al))
    ELSE LET X == IF NeedSwap(h.val, x, y) THEN y ELSE x
             Y == IF NeedSwap(h.val, x, y) THEN x ELSE y
         IN MRes([h EXCEPT !.ls[X] = Y], X, "ok", 1, (x \notin al) \/ (y \notin al))
RECURSIVE MergeLeftDescent(_, _, _, _, _, _)
MergeLeftDescent(al, h, x, y, k, fuel) ==
    IF x = Null THEN MRes(h, y, "ok", 0, FALSE)
    ELSE IF y = Null THEN MRes(h, x, "ok", 0, FALSE)
    ELSE IF fuel = 0 THEN MRes(h, Null, "overflow", 0, FALSE)
    ELSE LET ub0 == (x \notin al) \/ (y \notin al)
         IN IF k = 1 THEN MRes(h, Null, "threw", 1, ub0)
            ELSE LET X == IF NeedSwap(h.val, x, y) THEN y ELSE x
                     Y == IF NeedSwap(h.val, x, y) THEN x ELSE y
                     r == MergeLeftDescent(al, h, h.ls[X], Y,
                                           IF k = 0 THEN 0 ELSE k - 1, fuel - 1)
                 IN IF r.st = "ok"
                    THEN MRes([ls |-> [r.ls EXCEPT ![X] = r.ret], rs |-> r.rs],
                              X, "ok", r.cmps + 1, r.ub \/ ub0)
                    ELSE MRes(r, Null, r.st, r.cmps + 1, r.ub \/ ub0)
RECURSIVE merge(_, _, _, _, _, _)
merge(al, h, x, y, k, fuel) ==
    IF x = Null THEN MRes(h, y, "ok", 0, FALSE)
    ELSE IF y = Null THEN MRes(h, x, "ok", 0, FALSE)
    ELSE IF fuel = 0 THEN MRes(h, Null, "overflow", 0, FALSE)
    ELSE LET ub0 == (x \notin al) \/ (y \notin al)
         IN IF k = 1 THEN MRes(h, Null, "threw", 1, ub0)
            ELSE LET X == IF NeedSwap(h.val, x, y) THEN y ELSE x
                     Y == IF NeedSwap(h.val, x, y) THEN x ELSE y
                     tmp == h.rs[X]
                     h1 == [h EXCEPT !.rs[X] = h.ls[X]]
                     r == merge(al, h1, tmp, Y, IF k = 0 THEN 0 ELSE k - 1, fuel - 1)
                 IN IF r.st = "ok"
                    THEN MRes([ls |-> [r.ls EXCEPT ![X] = r.ret], rs |-> r.rs],
                              X, "ok", r.cmps + 1, r.ub \/ ub0)
                    ELSE MRes(r, Null, r.st, r.cmps + 1, r.ub \/ ub0)

Heap == [val |-> val, ls |-> ls, rs |-> rs]

Last(op, q, o, out, cmps, nullread) ==
    [op |-> op, q |-> q, o |-> o, out |-> out, cmps |-> cmps, nullread |-> nullread]

\* Compare throws in at most MaxFaults calls of a behaviour, and at most
\* MaxAfter calls follow the first of them.
Fault(threw) ==
    /\ threw => faults < MaxFaults
    /\ faults' = IF threw THEN faults + 1 ELSE faults
    /\ faults > 0 => after < MaxAfter
    /\ after' = IF faults > 0 THEN after + 1 ELSE after
    /\ UNCHANGED vvars

\* A call that is not a copy and ends no queue's lifetime.
Call(threw) == Fault(threw) /\ UNCHANGED copyof

\* History: queue q now holds a copy of queue o (NoQueue: of none), and no
\* queue holds a copy of what q held.
Forget(q, o) ==
    [p \in Queue |-> IF p = q THEN o ELSE IF copyof[p] = q THEN NoQueue ELSE copyof[p]]

\* The inputs of a call that was not cut short: k names a comparison the
\* call made (or none), and the process was not told to die.
Inputs(k, die, st) ==
    /\ ~die
    /\ k = 0 \/ st = "threw"

\* Some call so far has propagated an exception of Compare.
raised == faults > 0

\* A call that changes nothing but returns or raises.
Unchanged(op, q, o, out) ==
    /\ last' = Last(op, q, o, out, 0, FALSE)
    /\ Call(FALSE)
    /\ UNCHANGED <<alloc, val, ls, rs, root, size, live, crashed>>

\* The process dies on undefined behaviour or on a stack that ran out: no
\* state of the program is left to look at.
Crash(op, q, o, nullread) ==
    /\ crashed' = TRUE
    /\ last' = Last(op, q, o, "crash", 0, nullread)
    /\ alloc' = {}
    /\ val' = [n \in Node |-> 1]
    /\ ls' = [n \in Node |-> Null]
    /\ rs' = [n \in Node |-> Null]
    /\ root' = [p \in Queue |-> Null]
    /\ size' = [p \in Queue |-> 0]
    /\ live' = [p \in Queue |-> FALSE]
    /\ Fault(FALSE) /\ copyof' = [p \in Queue |-> NoQueue]

\* -------------------------------------------------------------------- push
\* void push(const T &e), lines 585-594: what the call leaves behind, given
\* the address n that new returned and the result r of merge(root_, newnode).
PushSizeEarly(q, n, r) ==
    [root |-> IF r.st = "ok" THEN r.ret ELSE root[q],
     size |-> size[q] + 1,
     alloc |-> IF r.st = "ok" THEN alloc \cup {n} ELSE alloc \ {n}]
PushEffect(q, n, r) ==
    [root |-> IF r.st = "ok" THEN r.ret ELSE root[q],
     size |-> IF r.st = "ok" THEN size[q] + 1 ELSE size[q],
     alloc |-> IF r.st = "ok" THEN alloc \cup {n} ELSE alloc \ {n}]

Push(q, e, n, k, die) ==
    /\ ~crashed /\ live[q]
    /\ NumLive + Cardinality(alloc) < MaxObjects
    /\ \E r \in {merge(alloc \cup {n},
                         [val |-> [val EXCEPT ![n] = e],
                          ls |-> [ls EXCEPT ![n] = Null], rs |-> [rs EXCEPT ![n] = Null]],
                         root[q], n, k, StackLimit)} :
       LET v1 == [val EXCEPT ![n] = e]
           eff == PushEffect(q, n, r)
       IN IF r.st = "overflow" \/ (r.ub /\ die)
          THEN Crash("push", q, NoQueue, FALSE)
          ELSE /\ Inputs(k, die, r.st)
               /\ Commit(eff.alloc, v1, r.ls, r.rs,
                         [root EXCEPT ![q] = eff.root],
                         [size EXCEPT ![q] = eff.size], live)
               /\ Call(r.st = "threw")
               /\ last' = Last("push", q, NoQueue, r.st, r.cmps, FALSE)
               /\ UNCHANGED crashed

\* --------------------------------------------------------------------- top
\* const T & top() const, lines 574-579.  It raises container_is_empty when
\* EmptyCheck holds and reads root_->val otherwise.
EmptyCheckOffByOne(q) == size[q] <= 1
EmptyCheck(q) == size[q] = 0

Top(q, die) ==
    /\ ~crashed /\ live[q]
    /\ IF EmptyCheck(q)
       THEN ~die /\ Unchanged("top", q, NoQueue, "empty")
       ELSE IF root[q] = Null \/ (root[q] \notin alloc /\ die)
       THEN Crash("top", q, NoQueue, FALSE)
       ELSE ~die /\ Unchanged("top", q, NoQueue, "ok")

\* --------------------------------------------------------------------- pop
\* void pop(), lines 600-608: what the call leaves behind, given the result r
\* of merge(root_->ls, root_->rs).
PopEffect(q, r) ==
    [root |-> IF r.st = "ok" THEN r.ret ELSE root[q],
     size |-> IF r.st = "ok" THEN size[q] - 1 ELSE size[q],
     alloc |-> IF r.st = "ok" THEN alloc \ {root[q]} ELSE alloc]

Pop(q, k, die) ==
    /\ ~crashed /\ live[q]
    /\ IF EmptyCheck(q)
       THEN ~die /\ k = 0 /\ Unchanged("pop", q, NoQueue, "empty")
       ELSE IF root[q] = Null
       THEN Crash("pop", q, NoQueue, FALSE)
       ELSE \E r \in {merge(alloc, Heap, ls[root[q]], rs[root[q]], k, StackLimit)} :
            LET tmp == root[q]
                ub == r.ub \/ tmp \notin alloc
                eff == PopEffect(q, r)
            IN IF r.st = "overflow" \/ (ub /\ die)
               THEN Crash("pop", q, NoQueue, FALSE)
               ELSE /\ Inputs(k, die, r.st)
                    /\ Commit(eff.alloc, val, r.ls, r.rs,
                              [root EXCEPT ![q] = eff.root],
                              [size EXCEPT ![q] = eff.size], live)
                    /\ Call(r.st = "threw")
                    /\ last' = Last("pop", q, NoQueue, r.st, r.cmps, FALSE)
                    /\ UNCHANGED crashed

\* ------------------------------------------------------------------- merge
\* void merge(priority_queue &other), lines 632-647.  SameInstance is the
\* identity test of line 633.
SameInstanceNever(q, o) == FALSE
SameInstance(q, o) == q = o

\* line 638 reads root_->val and other.root_->val whatever the two roots are
AbsentRootRead(q, o) == root[q] = Null \/ root[o] = Null

\* lines 640-643: what a merge that returned leaves in the two queues
MergeEffect(q, o, r) ==
    [root |-> [root EXCEPT ![q] = r.ret, ![o] = Null],
     size |-> [size EXCEPT ![q] = size[q] + size[o], ![o] = 0]]

MergeQ(q, o, k, die) ==
    /\ ~crashed /\ live[q] /\ live[o]
    /\ IF SameInstance(q, o)
       THEN ~die /\ k = 0 /\ Unchanged("merge", q, o, "ok")
       ELSE LET nullread == AbsentRootRead(q, o)
                ub1 == nullread \/ root[q] \notin alloc \/ root[o] \notin alloc
            IN IF ub1 /\ die
               THEN Crash("merge", q, o, nullread)
               ELSE IF k = 1
               THEN /\ ~die
                    /\ Call(TRUE)
                    /\ last' = Last("merge", q, o, "threw", 1, nullread)
                    /\ UNCHANGED <<alloc, val, ls, rs, root, size, live, crashed>>
               ELSE \E r \in {merge(alloc, Heap, root[q], root[o],
                                      IF k = 0 THEN 0 ELSE k - 1, StackLimit)} :
                    LET eff == MergeEffect(q, o, r)
                    IN IF r.st = "overflow" \/ (r.ub /\ die)
                       THEN Crash("merge", q, o, nullread)
                       ELSE /\ Inputs(k, die, r.st)
                            /\ Commit(alloc, val, r.ls, r.rs,
                                      IF r.st = "ok" THEN eff.root ELSE root,
                                      IF r.st = "ok" THEN eff.size ELSE size, live)
                            /\ Call(r.st = "threw")
                            /\ last' = Last("merge", q, o, r.st, r.cmps + 1, nullread)
                            /\ UNCHANGED crashed

\* ------------------------------------------------- clear, clonenode, copies
\* void clear(heapnode *x), lines 517-521, on a structure without a cycle:
\* the live set afterwards, and whether a freed node was read or freed again.
RECURSIVE clear(_, _)
clear(al, x) ==
    IF x = Null THEN [alloc |-> al, ub |-> FALSE]
    ELSE LET a == clear(al, ls[x])
             b == clear(a.alloc, rs[x])
         IN [alloc |-> b.alloc \ {x}, ub |-> a.ub \/ b.ub \/ x \notin b.alloc]

\* The number of nodes clonenode allocates for the structure under x (a node
\* held by two slots is cloned twice).
RECURSIVE CloneCount(_)
CloneCount(x) ==
    IF x = Null THEN 0 ELSE 1 + CloneCount(ls[x]) + CloneCount(rs[x])

\* The addresses n successive calls of new may return.
RECURSIVE NewSeqs(_, _, _)
NewSeqs(al, refd, n) ==
    IF n = 0 THEN {<<>>}
    ELSE UNION {{<<c>> \o t : t \in NewSeqs(al \cup {c}, refd, n - 1)} :
                c \in NewChoices(al, refd)}

\* heapnode *clonenode(heapnode *other), lines 522-528.  m is the memory
\* [alloc, val, ls, rs]; ids are the addresses the calls of new return, in
\* order.  The fields of other are read when the code reads them: val before
\* new, ls and rs after it.
RECURSIVE clonenode(_, _, _)
clonenode(m, other, ids) ==
    IF other = Null
    THEN [m |-> m, ret |-> Null, ids |-> ids, ub |-> FALSE, st |-> "ok"]
    ELSE IF ids = <<>>
    THEN [m |-> m, ret |-> Null, ids |-> ids, ub |-> FALSE, st |-> "nomem"]
    ELSE LET rt == Head(ids)
             ub0 == other \notin m.alloc
             m1 == [alloc |-> m.alloc \cup {rt},
                    val |-> [m.val EXCEPT ![rt] = m.val[other]],
                    ls |-> [m.ls EXCEPT ![rt] = Null],
                    rs |-> [m.rs EXCEPT ![rt] = Null]]
             a == clonenode(m1, m1.ls[other], Tail(ids))
             m2 == [a.m EXCEPT !.ls[rt] = a.ret]
             b == clonenode(m2, m2.rs[other], a.ids)
             m3 == [b.m EXCEPT !.rs[rt] = b.ret]
         IN IF a.st # "ok" THEN a
            ELSE IF b.st # "ok" THEN b
            ELSE [m |-> m3, ret |-> rt, ids |-> b.ids,
                  ub |-> ub0 \/ a.ub \/ b.ub, st |-> "ok"]

\* priority_queue(), lines 533-536
Construct(q) ==
    /\ ~crashed /\ ~live[q]
    /\ NumLive + Cardinality(alloc) < MaxObjects
    /\ live' = [live EXCEPT ![q] = TRUE]
    /\ root' = [root EXCEPT ![q] = Null]
    /\ size' = [size EXCEPT ![q] = 0]
    /\ last' = Last("construct", q, NoQueue, "ok", 0, FALSE)
    /\ Fault(FALSE) /\ copyof' = Forget(q, NoQueue)
    /\ UNCHANGED <<alloc, val, ls, rs, crashed>>

\* priority_queue(const priority_queue &other), lines 542-545
CopyConstruct(q, o, die) ==
    /\ ~crashed /\ ~live[q] /\ live[o]
    /\ IF Cyclic(root[o])
       THEN die /\ Crash("copy", q, o, FALSE)
       ELSE /\ NumLive + 1 + Cardinality(alloc) + CloneCount(root[o]) <= MaxObjects
            /\ \E ids \in NewSeqs(alloc, Referenced(ls, rs, root, live),
                                  CloneCount(root[o])) :
               LET r == clonenode([alloc |-> alloc, val |-> val, ls |-> ls, rs |-> rs],
                                  root[o], ids)
               IN /\ r.st = "ok"
                  /\ IF r.ub /\ die
                     THEN Crash("copy", q, o, FALSE)
                     ELSE /\ ~die
                          /\ Commit(r.m.alloc, r.m.val, r.m.ls, r.m.rs,
                                    [root EXCEPT ![q] = r.ret],
                                    [size EXCEPT ![q] = size[o]],
                                    [live EXCEPT ![q] = TRUE])
                          /\ last' = Last("copy", q, o, "ok", 0, FALSE)
                          /\ Fault(FALSE) /\ copyof' = Forget(q, o)
                          /\ UNCHANGED crashed

\* priority_queue &operator=(const priority_queue &other), lines 559-567
Assign(q, o, die) ==
    /\ ~crashed /\ live[q] /\ live[o]
    /\ IF SameInstance(q, o)
       THEN ~die /\ Unchanged("assign", q, o, "ok")
       ELSE IF Cyclic(root[q]) \/ Cyclic(root[o])
       THEN die /\ Crash("assign", q, o, FALSE)
       ELSE LET c == clear(alloc, root[q])
                refd == Referenced(ls, rs, [root EXCEPT ![q] = Null], live)
            IN /\ NumLive + Cardinality(c.alloc) + CloneCount(root[o]) <= MaxObjects
               /\ \E ids \in NewSeqs(c.alloc, refd, CloneCount(root[o])) :
                  LET r == clonenode([alloc |-> c.alloc, val |-> val, ls |-> ls, rs |-> rs],
                                     root[o], ids)
                  IN /\ r.st = "ok"
                     /\ IF (c.ub \/ r.ub) /\ die
                        THEN Crash("assign", q, o, FALSE)
                        ELSE /\ ~die
                             /\ Commit(r.m.alloc, r.m.val, r.m.ls, r.m.rs,
                                       [root EXCEPT ![q] = r.ret],
                                       [size EXCEPT ![q] = size[o]], live)
                             /\ last' = Last("assign", q, o, "ok", 0, FALSE)
                             /\ Fault(FALSE) /\ copyof' = Forget(q, o)
                             /\ UNCHANGED crashed

\* ~priority_queue(), lines 550-552
Destroy(q, die) ==
    /\ ~crashed /\ live[q]
    /\ IF Cyclic(root[q])
       THEN die /\ Crash("destroy", q, NoQueue, FALSE)
       ELSE LET c == clear(alloc, root[q])
            IN IF c.ub /\ die
               THEN Crash("destroy", q, NoQueue, FALSE)
               ELSE /\ ~die
                    /\ Commit(c.alloc, val, ls, rs,
                              [root EXCEPT ![q] = Null],
                              [size EXCEPT ![q] = 0],
                              [live EXCEPT ![q] = FALSE])
                    /\ last' = Last("destroy", q, NoQueue, "ok", 0, FALSE)
                    /\ Fault(FALSE) /\ copyof' = Forget(q, NoQueue)
                    /\ UNCHANGED crashed

\* ------------------------------------------------------------------ vector
Vec == 1..NumVecs
NoVec == Null

\* The addresses malloc can return for a buffer: one per vector and one more,
\* for the moment in reserve when the old and the new buffer both exist.
Buf == 1..(NumVecs + 1)
Offset == (0 - MaxOff)..MaxOff

\* iterator(pointer ptr, int idx), line 51; of is the vector the iterator was
\* obtained from (history; NoVec for a default-constructed one, line 50).
Iterator(ptr, idx, of) == [ptr_ |-> ptr, idx_ |-> idx, of |-> of]

\* iterator operator+(const int &n) const, lines 56-60
IterPlus(p, n) == [p EXCEPT !.idx_ = @ + n]

\* iterator operator-(const int &n) const, lines 61-65
IterMinus(p, n) == [p EXCEPT !.idx_ = @ + n]

\* iterator& operator+=(const int &n), lines 75-78
IterPlusAssign(p, n) == [p EXCEPT !.idx_ = @ + n]

\* iterator& operator-=(const int &n), lines 79-82
IterMinusAssign(p, n) == [p EXCEPT !.idx_ = @ - n]

\* int operator-(const iterator &rhs) const, lines 67-74
IterDistance(a, b) ==
    IF a.ptr_ # b.ptr_
    THEN [out |-> "invalid_iterator", num |-> 0]
    ELSE [out |-> "ok", num |-> a.idx_ - b.idx_]

\* iterator begin(), lines 334-336, and iterator end(), lines 346-348
begin(v) == Iterator(data[v], 0, v)
end(v) == Iterator(data[v], vsize[v], v)

\* malloc, lines 272 and 460: an address that holds no live buffer.  No
\* pointer into a freed buffer is kept by the vectors, so the free addresses
\* cannot be told apart and the lowest one stands for them all.
Mallocs ==
    LET free == Buf \ {data[v] : v \in Vec}
    IN {CHOOSE b \in free : \A c \in free : b <= c}

\* The capacity reserve is called with, lines 390 and 434.
Grown(v) == IF capacity[v] # 0 THEN capacity[v] * 2 ELSE 1

\* What the last call was: the vector, the iterators and the numbers it was
\* given, the value its argument had when it was called, how it ended, and
\* the iterator or the number it returned.
VLast(op, v, it1, it2, n, arg, out, ret, num) ==
    [op |-> op, v |-> v, it1 |-> it1, it2 |-> it2, n |-> n, arg |-> arg,
     out |-> out, ret |-> ret, num |-> num]

NoIter == Iterator(Null, 0, NoVec)

\* The iterators a caller holds of the vectors as they are: begin(), end()
\* and the iterators begin() + m of the positions in between.
Iters ==
    UNION {{begin(v), end(v)} \cup {IterPlus(begin(v), m) : m \in 1..vsize[v]} : v \in Vec}

\* a call on an iterator or a const vector that returns a value
Returns(op, v, it1, it2, n, out, ret, num) ==
    /\ vlast' = VLast(op, v, it1, it2, n, 0, out, ret, num)
    /\ UNCHANGED <<data, vsize, capacity, elems>>
    /\ UNCHANGED qvars

Begin(v) == Returns("begin", v, NoIter, NoIter, 0, "ok", begin(v), 0)

End(v) == Returns("end", v, NoIter, NoIter, 0, "ok", end(v), 0)

\* it + n
Plus(p, n) == Returns("plus", NoVec, p, NoIter, n, "ok", IterPlus(p, n), 0)

\* it - n
Minus(p, n) == Returns("minus", NoVec, p, NoIter, n, "ok", IterMinus(p, n), 0)

\* it += n, on a copy of the caller's iterator
PlusAssign(p, n) ==
    Returns("plus_assign", NoVec, p, NoIter, n, "ok", IterPlusAssign(p, n), 0)

\* it -= n, on a copy of the caller's iterator
MinusAssign(p, n) ==
    Returns("minus_assign", NoVec, p, NoIter, n, "ok", IterMinusAssign(p, n), 0)

\* a - b
Distance(a, b) ==
    LET r == IterDistance(a, b)
    IN Returns("distance", NoVec, a, b, 0, r.out, NoIter, r.num)

\* The number of elements the vectors hold together (at most MaxLen).
RECURSIVE SumSizes(_)
SumSizes(V) ==
    IF V = {} THEN 0
    ELSE LET v == CHOOSE w \in V : TRUE IN vsize[v] + SumSizes(V \ {v})
TotalLen == SumSizes(Vec)

\* void push_back(const T &value), lines 432-438, with reserve, lines 458-471
PushBack(v, e) ==
    /\ TotalLen < MaxLen
    /\ \E b \in IF vsize[v] = capacity[v] THEN Mallocs ELSE {data[v]} :
          /\ data' = [data EXCEPT ![v] = b]
          /\ capacity' = [capacity EXCEPT
                             ![v] = IF vsize[v] = capacity[v] THEN Grown(v) ELSE @]
    /\ elems' = [elems EXCEPT ![v] = Append(@, e)]
    /\ vsize' = [vsize EXCEPT ![v] = @ + 1]
    /\ vlast' = VLast("push_back", v, NoIter, NoIter, 0, e, "ok", NoIter, 0)
    /\ UNCHANGED qvars

\* void pop_back(), lines 443-449
PopBack(v) ==
    /\ IF vsize[v] = 0
       THEN /\ vlast' = VLast("pop_back", v, NoIter, NoIter, 0, 0,
                              "container_is_empty", NoIter, 0)
            /\ UNCHANGED <<vsize, elems>>
       ELSE /\ vsize' = [vsize EXCEPT ![v] = @ - 1]
            /\ elems' = [elems EXCEPT ![v] = SubSeq(@, 1, Len(@) - 1)]
            /\ vlast' = VLast("pop_back", v, NoIter, NoIter, 0, 0, "ok", NoIter, 0)
    /\ UNCHANGED <<data, capacity>>
    /\ UNCHANGED qvars

\* void clear(), lines 371-376
Clear(v) ==
    /\ vsize' = [vsize EXCEPT ![v] = 0]
    /\ elems' = [elems EXCEPT ![v] = <<>>]
    /\ vlast' = VLast("clear", v, NoIter, NoIter, 0, 0, "ok", NoIter, 0)
    /\ UNCHANGED <<data, capacity>>
    /\ UNCHANGED qvars

\* The argument const T &value of insert: a reference to an object outside
\* the vector that holds e (j = NoElem), or to the element at index j.
NoElem == 0 - 1
Ref(e, j) == [e |-> e, j |-> j]
Refs(v) == {Ref(e, NoElem) : e \in Value} \cup {Ref(elems[v][j + 1], j) : j \in 0..(vsize[v] - 1)}

\* iterator insert(const size_t &ind, const T &value), lines 386-398, past
\* the test of ind: reserve when full (b is the new buffer), size_++, the
\* loop that moves data_[i - 1] to data_[i] from the back down to ind + 1,
\* and the construction of data_[ind] from value, read at that moment: from
\* the element the reference names where the buffer was kept, from the
\* freed buffer (any value u) where reserve replaced it.
InsertEffect(v, ind, ref, b, u) ==
    LET full == vsize[v] = capacity[v]
        moved == [k \in 1..(vsize[v] + 1) |->
                     IF k - 1 > ind THEN elems[v][k - 1]
                     ELSE IF k <= vsize[v] THEN elems[v][k]
                     ELSE u]
        read == IF ref.j = NoElem THEN ref.e
                ELSE IF full THEN u
                ELSE moved[ref.j + 1]
    IN [data |-> IF full THEN b ELSE data[v],
        capacity |-> IF full THEN Grown(v) ELSE capacity[v],
        size |-> vsize[v] + 1,
        elems |-> [moved EXCEPT ![ind + 1] = read],
        ret |-> Iterator(IF full THEN b ELSE data[v], ind, v)]

Insert(v, ind, ref) ==
    IF ind > vsize[v]
    THEN /\ vlast' = VLast("insert", v, NoIter, NoIter, ind, ref.e,
                           "index_out_of_bound", NoIter, 0)
         /\ UNCHANGED <<data, vsize, capacity, elems>>
         /\ UNCHANGED qvars
    ELSE /\ TotalLen < MaxLen
         /\ \E b \in IF vsize[v] = capacity[v] THEN Mallocs ELSE {data[v]} :
            \E u \in IF vsize[v] = capacity[v] /\ ref.j # NoElem THEN Value ELSE {ref.e} :
               LET eff == InsertEffect(v, ind, ref, b, u)
               IN /\ data' = [data EXCEPT ![v] = eff.data]
                  /\ capacity' = [capacity EXCEPT ![v] = eff.capacity]
                  /\ vsize' = [vsize EXCEPT ![v] = eff.size]
                  /\ elems' = [elems EXCEPT ![v] = eff.elems]
                  /\ vlast' = VLast("insert", v, NoIter, NoIter, ind, ref.e,
                                    "ok", eff.ret, 0)
              /\ UNCHANGED qvars

Init ==
    /\ alloc = {}
    /\ val = [n \in Node |-> 1]
    /\ ls = [n \in Node |-> Null]
    /\ rs = [n \in Node |-> Null]
    /\ root = [q \in Queue |-> Null]
    /\ size = [q \in Queue |-> 0]
    /\ live = [q \in Queue |-> q = 1]
    /\ crashed = FALSE
    /\ faults = 0
    /\ after = 0
    /\ copyof = [q \in Queue |-> NoQueue]
    /\ last = Last("init", NoQueue, NoQueue, "ok", 0, FALSE)
    /\ data = [v \in Vec |-> Null]
    /\ vsize = [v \in Vec |-> 0]
    /\ capacity = [v \in Vec |-> 0]
    /\ elems = [v \in Vec |-> <<>>]
    /\ vlast = VLast("init", NoVec, NoIter, NoIter, 0, 0, "ok", NoIter, 0)

Next ==
    \/ \E n \in NewChoices(alloc, Referenced(ls, rs, root, live)) :
          \E q \in Queue, e \in Value, k \in 0..MaxThrow, die \in BOOLEAN :
             Push(q, e, n, k, die)
    \/ \E q \in Queue, die \in BOOLEAN : Top(q, die)
    \/ \E q \in Queue, k \in 0..MaxThrow, die \in BOOLEAN : Pop(q, k, die)
    \/ \E q \in Queue, o \in Queue, k \in 0..MaxThrow, die \in BOOLEAN :
          MergeQ(q, o, k, die)
    \/ \E q \in Queue : Construct(q)
    \/ \E q \in Queue, o \in Queue, die \in BOOLEAN : CopyConstruct(q, o, die)
    \/ \E q \in Queue, o \in Queue, die \in BOOLEAN : Assign(q, o, die)
    \/ \E q \in Queue, die \in BOOLEAN : Destroy(q, die)

Spec == Init /\ [][Next]_vars

\* The calls on vectors and on their iterators.
VecNext ==
    \/ \E v \in Vec : Begin(v)
    \/ \E v \in Vec : End(v)
    \/ \E p \in Iters, n \in Offset : Plus(p, n)
    \/ \E p \in Iters, n \in Offset : Minus(p, n)
    \/ \E p \in Iters, n \in Offset : PlusAssign(p, n)
    \/ \E p \in Iters, n \in Offset : MinusAssign(p, n)
    \/ \E a \in Iters, b \in Iters : Distance(a, b)
    \/ \E v \in Vec, e \in Value : PushBack(v, e)
    \/ \E v \in Vec : PopBack(v)
    \/ \E v \in Vec : Clear(v)
    \/ \E v \in Vec, ind \in 0..(MaxLen + 1) : \E ref \in Refs(v) : Insert(v, ind, ref)

VecSpec == Init /\ [][VecNext]_vars

\* ----------------------------------------------------------------- claims
\* The whole state of the program is as it was (the state is kept up to the
\* numbering of the addresses, so equality means: the same trees, node for
\* node and link for link, the same live nodes, the same roots and sizes).
SameState ==
    /\ alloc' = alloc /\ val' = val /\ ls' = ls /\ rs' = rs
    /\ root' = root /\ size' = size /\ live' = live

\* The elements of queue q: the values of the nodes its root leads to.
Elems(q) == Reach(root[q])

\* C1: a push during which Compare throws, at whatever depth of the
\* recursive merge, leaves the queue's tree, its size and the set of live
\* nodes exactly as they were before the call.
C1_PushStrongGuarantee ==
    [][(last'.op = "push" /\ last'.out = "threw") => SameState]_vars

\* C2: a merge of two distinct non-empty queues during which Compare throws
\* (at the pre-check or at any level of the recursion) leaves both queues in
\* their original state.
C2_MergeStrongGuarantee ==
    [][(/\ last'.op = "merge" /\ last'.out = "threw"
        /\ last'.q # last'.o
        /\ root[last'.q] # Null /\ root[last'.o] # Null) => SameState]_vars

\* C3: for distinct queues A and B of any sizes m, n >= 0 and a Compare that
\* does not throw, A.merge(B) completes, and afterwards B is empty with size
\* 0 and A has size m + n.
C3_MergeDrainsSource ==
    [][(/\ last'.op = "merge" /\ last'.q # last'.o
        /\ last'.out # "threw" /\ ~raised /\ ~crashed)
       => (/\ last'.out = "ok"
           /\ size'[last'.o] = 0 /\ root'[last'.o] = Null
           /\ size'[last'.q] = size[last'.q] + size[last'.o])]_vars

\* C4: after calls that all completed without raising, top() of a non-empty
\* queue is an element t with Compare(t, x) false for every element x of the
\* queue.
C4_TopExtremal ==
    (~raised /\ ~crashed) =>
        \A q \in Queue : (live[q] /\ size[q] > 0) =>
            /\ root[q] # Null
            /\ \A x \in Elems(q) : ~Compare(val[root[q]], val[x])

C4_Witness ==
    /\ ~raised /\ ~crashed
    /\ last.op = "pop" /\ last.out = "ok"
    /\ size[last.q] >= 2
    /\ \E x \in Elems(last.q) : val[x] # val[root[last.q]]

\* C5: in every reachable state, after calls that returned and calls that
\* raised, size equals the number of nodes reachable from root, and root is
\* absent exactly when size is 0.
C5_CountInvariant ==
    ~crashed =>
        \A q \in Queue : live[q] =>
            /\ size[q] = Cardinality(Elems(q))
            /\ (root[q] = Null <=> size[q] = 0)

\* C6: a pop during which Compare throws leaves the queue as it was before
\* the call: the old root, the same size, every node reachable once with its
\* original links.
C6_PopRestores ==
    [][(last'.op = "pop" /\ last'.out = "threw") => SameState]_vars

\* C7: when Compare throws during push(v), size() is what it was before the
\* call and, for a non-empty queue (whose root is a live node, so that top()
\* is defined), so is the value top() returns.
C7_PushAtomicObservably ==
    [][(last'.op = "push" /\ last'.out = "threw") =>
         /\ size'[last'.q] = size[last'.q]
         /\ (size[last'.q] > 0 /\ root[last'.q] \in alloc) =>
               /\ root'[last'.q] \in alloc'
               /\ val'[root'[last'.q]] = val[root[last'.q]]]_vars

C7_Witness ==
    /\ last.op = "push" /\ last.out = "threw"
    /\ last.cmps >= 2
    /\ size[last.q] > 0

\* The number of elements of queue q holding each value.
ValBag(q) == [v \in Value |-> Cardinality({n \in Elems(q) : val[n] = v})]

\* What a caller can see of queue q: size(), the elements, and top().
Seen(q) ==
    [size |-> size[q], bag |-> ValBag(q),
     top |-> IF root[q] = Null THEN Null ELSE val[root[q]]]

\* Queues p and q are a copy and its original.
CopyPair(p, q) ==
    /\ p \in Queue /\ q \in Queue /\ p # q
    /\ (copyof[p] = q \/ copyof[q] = p)

\* C8: after Q is copy-constructed or copy-assigned from P the two queues
\* share no node; a later push, pop or merge on one of them leaves the size,
\* the top and the elements of the other unchanged; and assigning a queue to
\* itself leaves it unchanged.
C8_CopyIndependence ==
    [][/\ (last'.op \in {"copy", "assign"} /\ last'.out = "ok" /\ last'.q # last'.o)
            => ReachIn(ls', rs', root'[last'.q])
                  \cap ReachIn(ls', rs', root'[last'.o]) = {}
       /\ (last'.op = "assign" /\ last'.q = last'.o) => SameState
       /\ (last'.op \in {"push", "pop", "merge"} /\ last'.out # "crash")
            => \A p \in Queue :
                  (/\ live[p] /\ CopyPair(p, last'.q)
                   /\ p # last'.o /\ ~CopyPair(p, last'.o))
                  => Seen(p)' = Seen(p)]_vars

\* C9: top() and pop() raise container_is_empty exactly when size is 0, and
\* the call that raises it leaves the state of the program unchanged.
C9_EmptyContainer ==
    [][(last'.op \in {"top", "pop"} /\ last'.out # "crash") =>
         /\ (last'.out = "empty") <=> (size[last'.q] = 0)
         /\ (last'.out = "empty") => SameState]_vars

C9_Witness ==
    /\ last.op \in {"top", "pop"} /\ last.out = "empty"
    /\ size[last.q] = 0
    /\ \E p \in Queue : live[p] /\ size[p] > 0

\* C10: when A or B (distinct) is empty, A.merge(B) invokes Compare zero
\* times, reads the value of no absent root and cannot raise; afterwards A
\* holds the tree of the non-empty operand and B is empty.
C10_MergeWithAbsentTree ==
    [][(/\ last'.op = "merge" /\ last'.q # last'.o
        /\ (root[last'.q] = Null \/ root[last'.o] = Null))
       => (/\ last'.out = "ok"
           /\ last'.cmps = 0
           /\ ~last'.nullread
           /\ size'[last'.q] = size[last'.q] + size[last'.o]
           /\ size'[last'.o] = 0 /\ root'[last'.o] = Null)]_vars

\* C14: A.merge(A) on one instance, empty or not, invokes no comparison and
\* leaves A's size, root and tree unchanged.
C14_SelfMergeNoOp ==
    [][(last'.op = "merge" /\ last'.q = last'.o) =>
         /\ last'.out = "ok"
         /\ last'.cmps = 0
         /\ SameState]_vars

C14_Witness ==
    /\ last.op = "merge" /\ last.q = last.o /\ last.out = "ok"
    /\ size[last.q] >= 2

\* The nodes of queue q that hold a child, with that child.
ParentChild(q) ==
    {<<n, c>> \in Elems(q) \X Elems(q) : c = ls[n] \/ c = rs[n]}

\* C16, as stated: in every queue reached by calls that completed without
\* raising, Compare(C.value, N.value) is false for every node N and present
\* child C of N.
C16_HeapOrderAsStated ==
    (~raised /\ ~crashed) =>
        \A q \in Queue : live[q] =>
            \A e \in ParentChild(q) : ~Compare(val[e[2]], val[e[1]])

\* C16, amended: in every queue reached by calls that completed without
\* raising, Compare(N.value, C.value) is false for every node N and present
\* child C of N (the parent is the first argument, the child the second).
C16_HeapOrder ==
    (~raised /\ ~crashed) =>
        \A q \in Queue : live[q] =>
            \A e \in ParentChild(q) : ~Compare(val[e[1]], val[e[2]])

C16_Witness ==
    /\ ~raised /\ ~crashed
    /\ last.op = "merge" /\ last.out = "ok" /\ last.cmps >= 2
    /\ \E e \in ParentChild(last.q) : Compare(val[e[2]], val[e[1]])

\* C17: in every queue reached by calls that completed without raising,
\* every node N dominates what lies below it at every depth: Compare(N.value,
\* D.value) is false for every node D of the subtrees of N.
C17_ParentDominates ==
    (~raised /\ ~crashed) =>
        \A q \in Queue : live[q] =>
            \A n \in Elems(q) :
                \A d \in Reach(ls[n]) \cup Reach(rs[n]) : ~Compare(val[n], val[d])

C17_Witness ==
    /\ ~raised /\ ~crashed
    /\ last.op = "pop" /\ last.out = "ok"
    /\ \E n \in Elems(last.q) :
          /\ n # root[last.q]
          /\ \E d \in Reach(ls[n]) \cup Reach(rs[n]) : val[d] # val[n]

\* The number of slots through which node n is reached from root x in the
\* memory with links L and R.
SlotsIn(L, R, x, n) ==
    (IF x = n THEN 1 ELSE 0)
    + Cardinality({m \in ReachIn(L, R, x) : L[m] = n})
    + Cardinality({m \in ReachIn(L, R, x) : R[m] = n})

\* The pairs of arguments the recursive merge can be given in this state:
\* two disjoint well-formed trees of the memory, either of which may be
\* absent.
TreePairs ==
    LET known == Referenced(ls, rs, root, live) \cup {Null}
    IN {p \in known \X known :
           /\ IsTree(p[1]) /\ IsTree(p[2])
           /\ Reach(p[1]) \cap Reach(p[2]) = {}}

\* The winner of the two roots: x unless Compare(x->val, y->val) holds.
Winner(x, y) ==
    IF x = Null THEN y
    ELSE IF y = Null THEN x
    ELSE IF Compare(val[x], val[y]) THEN y ELSE x

\* C18: the recursive merge of two disjoint trees x and y returns normally
\* with a single tree rooted at the winner of the two roots, whose nodes are
\* exactly the nodes of x and of y, each held by one slot; the links of no
\* other node change (the call neither allocates nor frees, and writes no
\* value).
C18_MergeConservesNodes ==
    ~crashed =>
        \A p \in TreePairs :
            LET r == merge(alloc, Heap, p[1], p[2], 0, StackLimit)
                both == Reach(p[1]) \cup Reach(p[2])
            IN /\ r.st = "ok" /\ ~r.ub
               /\ r.ret = Winner(p[1], p[2])
               /\ ReachIn(r.ls, r.rs, r.ret) = both
               /\ \A n \in both : SlotsIn(r.ls, r.rs, r.ret, n) = 1
               /\ \A n \in Node \ both : r.ls[n] = ls[n] /\ r.rs[n] = rs[n]

C18_Witness ==
    /\ ~crashed
    /\ \E p \in TreePairs :
          /\ p[1] # Null /\ Cardinality(Reach(p[2])) >= 3
          /\ Winner(p[1], p[2]) = p[2]
          /\ merge(alloc, Heap, p[1], p[2], 0, StackLimit).cmps >= 2

\* r(T): the number of nodes on the right spine of the tree rooted at x.
RECURSIVE RSpine(_)
RSpine(x) == IF x = Null THEN 0 ELSE 1 + RSpine(rs[x])

\* C20: for two present, disjoint, well-formed trees x and y the recursive
\* merge ends after at most r(x) + r(y) - 1 invocations of Compare; with an
\* absent argument it returns at once, having invoked Compare zero times.
C20_RightSpineBound ==
    ~crashed =>
        \A p \in TreePairs :
            LET r == merge(alloc, Heap, p[1], p[2], 0, StackLimit)
            IN /\ r.st = "ok"
               /\ IF p[1] = Null \/ p[2] = Null
                  THEN r.cmps = 0
                  ELSE r.cmps <= RSpine(p[1]) + RSpine(p[2]) - 1

C20_Witness ==
    /\ ~crashed
    /\ \E p \in TreePairs :
          /\ p[1] # Null /\ p[2] # Null
          /\ RSpine(p[1]) + RSpine(p[2]) >= 3
          /\ RSpine(p[1]) < Cardinality(Reach(p[1]))
          /\ merge(alloc, Heap, p[1], p[2], 0, StackLimit).cmps
                = RSpine(p[1]) + RSpine(p[2]) - 1

\* C19: when pop() on a non-empty queue returns normally, size has gone down
\* by one and the elements are those before the call less one occurrence of
\* the value top() returned before the call; the new top is not
\* Compare-greater than the one removed.
C19_PopRemovesTop ==
    [][(last'.op = "pop" /\ last'.out = "ok") =>
         LET q == last'.q
         IN /\ size'[q] = size[q] - 1
            /\ root[q] # Null
            /\ [v \in Value |->
                  Cardinality({n \in ReachIn(ls', rs', root'[q]) : val'[n] = v})]
                 = [ValBag(q) EXCEPT ![val[root[q]]] = @ - 1]
            /\ root'[q] # Null => ~Compare(val[root[q]], val'[root'[q]])]_vars

\* C11: for an iterator it at index i and an integer n, it - n is the
\* iterator of the same vector at index i - n, so that (it + n) - n == it and
\* it - n is what -= n makes of a copy of it.
C11_IteratorMinusOffset ==
    vlast.op = "minus" =>
        LET p == vlast.it1
            n == vlast.n
        IN /\ vlast.ret = Iterator(p.ptr_, p.idx_ - n, p.of)
           /\ IterMinus(IterPlus(p, n), n) = p
           /\ vlast.ret = IterMinusAssign(p, n)

\* C12: for two iterators a and b, a - b returns index(a) - index(b) when
\* both were obtained from the same vector, and throws invalid_iterator when
\* they were obtained from two different vectors, empty or not.
C12_IteratorDistance ==
    vlast.op = "distance" =>
        LET a == vlast.it1
            b == vlast.it2
        IN IF a.of = b.of
           THEN vlast.out = "ok" /\ vlast.num = a.idx_ - b.idx_
           ELSE vlast.out = "invalid_iterator"

\* vector::at(pos) of the elements s, lines 279-284, for pos < size
at(s, pos) == s[pos + 1]

\* C13: insert(ind, value) with ind <= size increases size by one, leaves
\* value at index ind, the elements below ind where they were and every
\* element formerly at j >= ind at j + 1, and returns an iterator at index
\* ind; with ind > size it throws index_out_of_bound and leaves contents,
\* size and capacity unchanged.
C13_InsertAtIndex ==
    [][vlast'.op = "insert" =>
         LET v == vlast'.v
             ind == vlast'.n
         IN IF ind <= vsize[v]
            THEN /\ vlast'.out = "ok"
                 /\ vsize'[v] = vsize[v] + 1
                 /\ Len(elems'[v]) = vsize'[v]
                 /\ at(elems'[v], ind) = vlast'.arg
                 /\ \A j \in 0..(vsize[v] - 1) :
                       IF j < ind THEN at(elems'[v], j) = at(elems[v], j)
                       ELSE at(elems'[v], j + 1) = at(elems[v], j)
                 /\ vlast'.ret = Iterator(data'[v], ind, v)
            ELSE /\ vlast'.out = "index_out_of_bound"
                 /\ UNCHANGED <<data, vsize, capacity, elems>>]_vars

====
